---------------------------- MODULE Spec2Model ----------------------------
(***************************************************************************)
(* A model of word_count.py: the class Socialization_of_Emotion.           *)
(*                                                                         *)
(* Text is modelled character by character: a Python str is a sequence of  *)
(* one-character strings, so that the regular expressions of               *)
(* _updateWordCount and the string methods of search_keys are computed on  *)
(* the characters, as the code computes them.  The pandas DataFrame        *)
(* df_counts is a record of its column labels, its index labels and its    *)
(* cells; a cell is NaN, a str or a number.                                *)
(***************************************************************************)
EXTENDS Integers, Sequences, FiniteSets, TLC

VARIABLES
    phase,        \* where the run of main() stands: "init", "listing", "parsing", "ready", "done", "error"
    df_counts,    \* self.df_counts
    setUpFile,    \* self.setUpFile, Unset while the attribute does not exist
    listed,       \* the directory entries os.listdir has yielded so far
    currDoc,      \* _updateWordCount: currDoc
    currIndex,    \* _updateWordCount: currIndex
    currPage,     \* _updateWordCount: currPage
    currSpeaker,  \* _updateWordCount: currSpeaker
    doc,          \* the paragraphs of the open document the loop has consumed
    nParas,       \* paragraphs consumed over the whole run
    resultsFile,  \* the content of saveDirectory/saveFile on disk, NoFile while there is none
    keysFile,     \* the content of keysFile as search_keys read it, NoFile before
    keywords      \* search_keys: keywords, the DataFrame read from keysFile

vars == <<phase, df_counts, setUpFile, listed, currDoc, currIndex, currPage,
          currSpeaker, doc, nParas, resultsFile, keysFile, keywords>>

-----------------------------------------------------------------------------
(* Bounds of the model *)

\* paragraphs consumed over one run, all documents together
MaxParas == 3

\* paragraphs consumed over one run of the end-to-end scenario
MaxScenarioParas == 4

-----------------------------------------------------------------------------
(* Python values *)

\* Python's None
None == <<"None">>
\* an attribute that was never assigned
Unset == <<"Unset">>
\* a file that does not exist or cannot be read
NoFile == [missing |-> TRUE]

\* the cells of a DataFrame
NaN == [t |-> "nan"]
StrV(s) == [t |-> "str", s |-> s]
IntV(n) == [t |-> "int", n |-> n]
\* pd.isna on a cell
IsNa(c) == c.t = "nan"
\* isinstance(c, str) on a cell
IsStr(c) == c.t = "str"

-----------------------------------------------------------------------------
(* Characters and the character classes of Python's re *)

UpperAlpha == <<"A","B","C","D","E","F","G","H","I","J","K","L","M",
                "N","O","P","Q","R","S","T","U","V","W","X","Y","Z">>
LowerAlpha == <<"a","b","c","d","e","f","g","h","i","j","k","l","m",
                "n","o","p","q","r","s","t","u","v","w","x","y","z">>
Letters == {UpperAlpha[i] : i \in DOMAIN UpperAlpha} \cup {LowerAlpha[i] : i \in DOMAIN LowerAlpha}
\* \d
Digits == {"0","1","2","3","4","5","6","7","8","9"}
\* \w
WordChars == Letters \cup Digits \cup {"_"}
\* [a-zA-Z\']
NameChars == Letters \cup {"'"}
\* the complement of \S
Whitespace == {" ", "\t"}

\* s[i], and "" outside the string (no character equals "")
At(s, i) == IF i \in 1..Len(s) THEN s[i] ELSE ""

\* the n characters of s from position i on, "" past its end
Window(s, i, n) == [k \in 1..n |-> At(s, i + k - 1)]

\* the least element of a non-empty set of integers
Least(S) == CHOOSE m \in S : \A n \in S : m <= n

\* the end of the greedy run of characters of class C that starts at i: the
\* first position from i on whose character is not in C
RunEnd(s, i, C) == Least({j \in i..(Len(s) + 1) : At(s, j) \notin C})

\* str.lower()
LowerChar(c) ==
    IF \E i \in DOMAIN UpperAlpha : UpperAlpha[i] = c
    THEN LowerAlpha[CHOOSE i \in DOMAIN UpperAlpha : UpperAlpha[i] = c]
    ELSE c
Lower(s) == [i \in 1..Len(s) |-> LowerChar(s[i])]

\* s[:n]
Prefix(s, n) == SubSeq(s, 1, IF n < Len(s) THEN n ELSE Len(s))

\* s[:-n] for n > 0
DropLast(s, n) == SubSeq(s, 1, IF Len(s) > n THEN Len(s) - n ELSE 0)

\* s occurs in t at position i
OccursAt(s, t, i) == /\ i >= 1
                     /\ i + Len(s) - 1 <= Len(t)
                     /\ \A k \in 1..Len(s) : t[i + k - 1] = s[k]

-----------------------------------------------------------------------------
(* The regular expressions of _updateWordCount *)

\* a mutant of PageMatchEnd: the label is \w+, so that "stop" is a label
PageMatchEndAnyWord(s, i) ==
    IF Lower(Window(s, i, 6)) = <<"[","p","a","g","e"," ">> /\ At(s, i + 2) = "a"
    THEN LET w == RunEnd(s, i + 6, WordChars)
         IN  IF w > i + 6 /\ At(s, w) = "]" THEN w ELSE 0
    ELSE 0

\* '\[([pP]age )(\d+-*\w*)\]' matched at position i: the position of the
\* closing bracket, 0 when there is no match at i.  The three greedy runs
\* need no backtracking: \w contains \d, neither contains "-" or "]", so a
\* shorter run never lets the rest match where the longest does not.
PageMatchEnd(s, i) ==
    IF /\ At(s, i) = "["
       /\ At(s, i + 1) \in {"p", "P"}
       /\ At(s, i + 2) = "a"
       /\ At(s, i + 3) = "g"
       /\ At(s, i + 4) = "e"
       /\ At(s, i + 5) = " "
    THEN LET d == RunEnd(s, i + 6, Digits)
             h == RunEnd(s, d, {"-"})
             w == RunEnd(s, h, WordChars)
         IN  IF d > i + 6 /\ At(s, w) = "]" THEN w ELSE 0
    ELSE 0

\* the positions at which the page pattern matches
PageMatches(s) == {i \in 1..Len(s) : PageMatchEnd(s, i) # 0}

\* re.search(page pattern, text): None, or group 2 of the leftmost match
PageSearch(s) ==
    IF PageMatches(s) = {} THEN None
    ELSE LET i == Least(PageMatches(s))
         IN  SubSeq(s, i + 6, PageMatchEnd(s, i) - 1)

\* len(re.findall(page pattern, text)).  A match holds one "[", at its
\* start, so no two matches overlap and findall returns one per position.
CountPageMarkers(s) == Cardinality(PageMatches(s))

\* len(re.findall(r'\[\[\w+\]\]', text))
CountCorrections(s) ==
    Cardinality({i \in 1..Len(s) :
        /\ At(s, i) = "["
        /\ At(s, i + 1) = "["
        /\ LET w == RunEnd(s, i + 2, WordChars)
           IN  w > i + 2 /\ At(s, w) = "]" /\ At(s, w + 1) = "]"})

\* len(re.findall(r'\[[a-zA-Z\']+ name\]', text))
CountRedactions(s) ==
    Cardinality({i \in 1..Len(s) :
        /\ At(s, i) = "["
        /\ LET n == RunEnd(s, i + 1, NameChars)
           IN  n > i + 1 /\ OccursAt(<<" ","n","a","m","e","]">>, s, n)})

\* len(re.findall("(\S+)", text)): the maximal runs of non-whitespace
CountTokens(s) ==
    Cardinality({i \in 1..Len(s) :
        /\ s[i] \notin Whitespace
        /\ (i = 1 \/ s[i - 1] \in Whitespace)})

\* a mutant of Words: the de-identified names are not subtracted
WordsNoRedaction(s) == CountTokens(s) - 2 * CountPageMarkers(s) - CountCorrections(s)

\* a mutant of Words: a negative net count is clamped to 0
WordsClamped(s) ==
    LET n == CountTokens(s) - 2 * CountPageMarkers(s) - CountCorrections(s) - CountRedactions(s)
    IN  IF n < 0 THEN 0 ELSE n

\* words = wordcount - 2*pageNum - wordCorrect - name
Words(s) == CountTokens(s) - 2 * CountPageMarkers(s) - CountCorrections(s) - CountRedactions(s)

\* paragraph.text[:5].lower(), when it is one of 'paren', 'child'
SpeakerTags == {<<"p","a","r","e","n">>, <<"c","h","i","l","d">>}
SpeakerOf(s) == Lower(Prefix(s, 5))

-----------------------------------------------------------------------------
(* The pandas DataFrame *)

ColID == <<"I","D">>
ColPageNum == <<"P","a","g","e","N","u","m">>
ColPTranscript == <<"P","_","t","r","a","n","s","c","r","i","p","t">>
ColCTranscript == <<"C","_","t","r","a","n","s","c","r","i","p","t">>
ColPWordCount == <<"P","_","W","o","r","d","C","o","u","n","t">>
ColCWordCount == <<"C","_","W","o","r","d","C","o","u","n","t">>
ColParticipantID == <<"P","a","r","t","i","c","i","p","a","n","t","_","I","D">>

\* columnNames of _setUp
columnNames == <<ColID, ColPageNum, ColPTranscript, ColCTranscript, ColPWordCount, ColCWordCount>>

\* the elements of a sequence
Range(q) == {q[i] : i \in DOMAIN q}

\* pd.DataFrame(columns=cols): no row, object columns.  A frame holds its
\* column labels and index labels in order, its cells, and the columns of
\* numeric dtype (on which the .str accessor raises AttributeError).
EmptyFrame(cols) ==
    [columns |-> cols, index |-> <<>>, data |-> [r \in {} |-> NaN], numeric |-> {}]

HasColumn(df, col) == col \in Range(df.columns)
HasRow(df, idx) == idx \in Range(df.index)

\* df.loc[idx, col], for a row and a column the frame has
GetCell(df, idx, col) == df.data[idx][col]

\* df.loc[idx, col] = v.  Setting with enlargement: a label the frame lacks
\* is appended to its axis and the new cells are NaN; no other cell changes.
SetCell(df, idx, col, v) ==
    LET cols == IF HasColumn(df, col) THEN df.columns ELSE Append(df.columns, col)
        idxs == IF HasRow(df, idx) THEN df.index ELSE Append(df.index, idx)
        old(r, c) == IF HasRow(df, r) /\ HasColumn(df, c) THEN df.data[r][c] ELSE NaN
    IN  [columns |-> cols,
         index |-> idxs,
         data |-> [r \in Range(idxs) |-> [c \in Range(cols) |->
                      IF r = idx /\ c = col THEN v ELSE old(r, c)]],
         numeric |-> df.numeric]

\* df.loc[:, col] = series, the series given as a function of the index
\* label: the column is added at the end when the frame lacks it.  The
\* series search_keys assigns are counts, so the column's dtype is numeric
\* when it has a row.
SetColumn(df, col, series) ==
    LET cols == IF HasColumn(df, col) THEN df.columns ELSE Append(df.columns, col)
    IN  [columns |-> cols,
         index |-> df.index,
         data |-> [r \in Range(df.index) |-> [c \in Range(cols) |->
                      IF c = col THEN series[r] ELSE df.data[r][c]]],
         numeric |-> IF df.index = <<>> THEN df.numeric ELSE df.numeric \cup {col}]

\* df.fillna(0, inplace=True)
FillNa(df) ==
    [df EXCEPT !.data = [r \in Range(df.index) |-> [c \in Range(df.columns) |->
                            IF IsNa(df.data[r][c]) THEN IntV(0) ELSE df.data[r][c]]]]

-----------------------------------------------------------------------------
(* CSV files: a header line and rows of fields, each field a str *)

DigitSeq == <<"0","1","2","3","4","5","6","7","8","9">>

\* str(n) for an integer
RECURSIVE IntToChars(_)
IntToChars(n) ==
    IF n < 0 THEN <<"-">> \o IntToChars(0 - n)
    ELSE IF n < 10 THEN <<DigitSeq[n + 1]>>
    ELSE IntToChars(n \div 10) \o <<DigitSeq[(n % 10) + 1]>>

\* a field read_csv parses as an integer
IsNumeric(f) ==
    LET body == IF At(f, 1) = "-" THEN Tail(f) ELSE f
    IN  body # <<>> /\ \A i \in DOMAIN body : body[i] \in Digits

DigitValue(c) == (CHOOSE i \in DOMAIN DigitSeq : DigitSeq[i] = c) - 1

RECURSIVE ParseNat(_)
ParseNat(f) ==
    IF f = <<>> THEN 0
    ELSE 10 * ParseNat(SubSeq(f, 1, Len(f) - 1)) + DigitValue(f[Len(f)])

\* int(f) for a numeric field
ParseInt(f) == IF At(f, 1) = "-" THEN 0 - ParseNat(Tail(f)) ELSE ParseNat(f)

\* one cell as to_csv writes it: NaN is the empty field
Render(c) ==
    IF IsNa(c) THEN <<>>
    ELSE IF IsStr(c) THEN c.s
    ELSE IntToChars(c.n)

\* df.to_csv(path, index=True, index_label='Participant_ID')
ToCsv(df) ==
    [header |-> <<ColParticipantID>> \o df.columns,
     rows |-> [i \in 1..Len(df.index) |->
                 <<df.index[i]>> \o [j \in 1..Len(df.columns) |->
                                       Render(df.data[df.index[i]][df.columns[j]])]]]

\* pd.read_csv(path): the first line is the header and gives the column
\* labels, the other lines are the rows, labelled 0, 1, ... ; an empty
\* field is NaN; a column whose non-empty fields are all numbers is
\* numeric, and every other column holds its non-empty fields as str.
ReadCsv(file) ==
    LET cols == file.header
        n == Len(file.rows)
        label(i) == IntToChars(i - 1)
        field(i, j) == file.rows[i][j]
        isNum(j) == n > 0 /\ \A i \in 1..n : field(i, j) = <<>> \/ IsNumeric(field(i, j))
        pos(c) == CHOOSE j \in DOMAIN cols : cols[j] = c
        cell(i, j) == IF field(i, j) = <<>> THEN NaN
                      ELSE IF isNum(j) THEN IntV(ParseInt(field(i, j)))
                      ELSE StrV(field(i, j))
    IN  [columns |-> cols,
         index |-> [i \in 1..n |-> label(i)],
         data |-> [r \in {label(i) : i \in 1..n} |-> [c \in Range(cols) |->
                      cell((CHOOSE i \in 1..n : label(i) = r), pos(c))]],
         numeric |-> {cols[j] : j \in {k \in DOMAIN cols : isNum(k)}}]

-----------------------------------------------------------------------------
(* Paths *)

\* saveDirectory + os.sep + saveFile
SavePath == <<"saveDirectory/saveFile">>
\* the setUpFile argument of __init__, when one is given
SetUpPath == <<"setUpFile">>

\* filename.split('.')[-1]
LastDotPart(f) ==
    LET dots == {i \in DOMAIN f : f[i] = "."}
    IN  IF dots = {} THEN f
        ELSE SubSeq(f, (CHOOSE i \in dots : \A j \in dots : j <= i) + 1, Len(f))

\* filename.split('.')[-1] != 'docx' is false
IsDocx(f) == LastDotPart(f) = <<"d","o","c","x">>

\* a mutant of MakeIndex: the page is left out of the row label
MakeIndexNoPage(d, page) == d \o <<"-","P","a","g","e","-">>

\* currIndex = currDoc + '-Page-' + currPage
MakeIndex(d, page) == d \o <<"-","P","a","g","e","-">> \o page

\* (currPage.lower == 'stop'): the bound method str.lower is compared with
\* a str, it is not called, and the comparison is False for every page
LowerIsStop(page) == FALSE

-----------------------------------------------------------------------------
(* _updateWordCount, the body of the loop over doc.paragraphs *)

\* lines 148-150, 152-154: the transcript cell of the speaker's column is
\* "" when it was NaN, and then ' ' + paragraph.text is added to it
AppendTranscript(df, idx, col, text) ==
    LET cur == IF IsNa(GetCell(df, idx, col)) THEN <<>> ELSE GetCell(df, idx, col).s
    IN  SetCell(df, idx, col, StrV(cur \o <<" ">> \o text))

\* lines 147-154
SaveTranscript(df, idx, speaker, text) ==
    IF speaker = <<"p","a","r","e","n">> THEN AppendTranscript(df, idx, ColPTranscript, text)
    ELSE IF speaker = <<"c","h","i","l","d">> THEN AppendTranscript(df, idx, ColCTranscript, text)
    ELSE df

\* lines 157-160
InitCount(df, idx, col) ==
    IF IsNa(GetCell(df, idx, col)) THEN SetCell(df, idx, col, IntV(0)) ELSE df

\* lines 171-174
AddWords(df, idx, speaker, n) ==
    IF speaker = <<"p","a","r","e","n">>
    THEN SetCell(df, idx, ColPWordCount, IntV(GetCell(df, idx, ColPWordCount).n + n))
    ELSE IF speaker = <<"c","h","i","l","d">>
    THEN SetCell(df, idx, ColCWordCount, IntV(GetCell(df, idx, ColCWordCount).n + n))
    ELSE df

\* lines 145-174, for a row the frame has
Accumulate(df, idx, speaker, text) ==
    AddWords(InitCount(InitCount(SaveTranscript(df, idx, speaker, text),
                                 idx, ColPWordCount),
                       idx, ColCWordCount),
             idx, speaker, Words(text))

\* lines 130-131
NextSpeaker(speaker, text) ==
    IF SpeakerOf(text) \in SpeakerTags THEN SpeakerOf(text) ELSE speaker

\* a mutant of EnsureRow: the row is made afresh, its other cells NaN
EnsureRowFresh(df, idx, d, page) ==
    LET idxs == IF HasRow(df, idx) THEN df.index ELSE Append(df.index, idx)
    IN  [df EXCEPT !.index = idxs,
                   !.data = [r \in Range(idxs) |->
                               IF r = idx
                               THEN [c \in Range(df.columns) |->
                                       IF c = ColID THEN StrV(d)
                                       ELSE IF c = ColPageNum THEN StrV(page) ELSE NaN]
                               ELSE df.data[r]]]

\* lines 142-143
EnsureRow(df, idx, d, page) ==
    SetCell(SetCell(df, idx, ColID, StrV(d)), idx, ColPageNum, StrV(page))

\* lines 134-143: the frame after the page change, if there is one
AfterPageChange(df, d, text) ==
    LET page == PageSearch(text)
    IN  IF page # None /\ ~LowerIsStop(page)
        THEN EnsureRow(df, MakeIndex(d, page), d, page)
        ELSE df

-----------------------------------------------------------------------------
(* Actions *)

\* __init__ with setUpFile None, lines 93-99: _setUp creates the frame
StartSetUp ==
    /\ phase = "init"
    /\ phase' = "listing"
    /\ df_counts' = EmptyFrame(columnNames)
    /\ UNCHANGED <<setUpFile, listed, currDoc, currIndex, currPage, currSpeaker,
                   doc, nParas, resultsFile, keysFile, keywords>>

\* __init__ with a setUpFile, lines 87-92: file is the content of the file,
\* NoFile when it cannot be read (ValueError)
LoadSetUpFile(file) ==
    /\ phase = "init"
    /\ IF file = NoFile
       THEN phase' = "error" /\ UNCHANGED <<df_counts, setUpFile>>
       ELSE /\ phase' = "ready"
            /\ df_counts' = ReadCsv(file)
            /\ setUpFile' = SetUpPath
    /\ UNCHANGED <<listed, currDoc, currIndex, currPage, currSpeaker, doc,
                   nParas, resultsFile, keysFile, keywords>>

\* lines 100-103: os.listdir yields an entry that is no .docx file
SkipEntry(f) ==
    /\ phase = "listing"
    /\ f \notin listed
    /\ ~IsDocx(f)
    /\ listed' = listed \cup {f}
    /\ UNCHANGED <<phase, df_counts, setUpFile, currDoc, currIndex, currPage,
                   currSpeaker, doc, nParas, resultsFile, keysFile, keywords>>

\* a mutant of OpenDocument: currIndex, currPage and currSpeaker keep the
\* values the last document left
OpenDocumentKeepState(f) ==
    /\ phase = "listing"
    /\ f \notin listed
    /\ IsDocx(f)
    /\ listed' = listed \cup {f}
    /\ phase' = "parsing"
    /\ currDoc' = DropLast(f, 5)
    /\ doc' = <<>>
    /\ UNCHANGED <<df_counts, setUpFile, currIndex, currPage, currSpeaker, nParas,
                   resultsFile, keysFile, keywords>>

\* lines 100-105 and 118-124: os.listdir yields a .docx file and
\* _updateWordCount opens it
OpenDocument(f) ==
    /\ phase = "listing"
    /\ f \notin listed
    /\ IsDocx(f)
    /\ listed' = listed \cup {f}
    /\ phase' = "parsing"
    /\ currDoc' = DropLast(f, 5)
    /\ currIndex' = None
    /\ currPage' = None
    /\ currSpeaker' = None
    /\ doc' = <<>>
    /\ UNCHANGED <<df_counts, setUpFile, nParas, resultsFile, keysFile, keywords>>

\* lines 125-174: one turn of the loop, on the next paragraph of the document
ParseParagraph(text) ==
    /\ phase = "parsing"
    /\ doc' = Append(doc, text)
    /\ nParas' = nParas + 1
    /\ IF text = <<>>
       THEN UNCHANGED <<phase, df_counts, currIndex, currPage, currSpeaker>>
       ELSE LET speaker == NextSpeaker(currSpeaker, text)
                found == PageSearch(text)
                page == IF found # None THEN found ELSE currPage
                index == IF found # None THEN MakeIndex(currDoc, found) ELSE currIndex
                df == AfterPageChange(df_counts, currDoc, text)
            IN  /\ currSpeaker' = speaker
                /\ currPage' = page
                /\ currIndex' = index
                /\ IF index = None
                   THEN df_counts' = df /\ UNCHANGED phase
                   ELSE IF HasRow(df, index)
                   THEN df_counts' = Accumulate(df, index, speaker, text) /\ UNCHANGED phase
                   ELSE df_counts' = df /\ phase' = "error"   \* KeyError at line 148, 152 or 157
    /\ UNCHANGED <<setUpFile, listed, currDoc, resultsFile, keysFile, keywords>>

\* lines 106-107: the document has no further paragraph; still inside the
\* loop over the directory, the frame is written to the results file
CloseDocument ==
    /\ phase = "parsing"
    /\ phase' = "listing"
    /\ setUpFile' = SavePath
    /\ resultsFile' = ToCsv(df_counts)
    /\ UNCHANGED <<df_counts, listed, currDoc, currIndex, currPage, currSpeaker,
                   doc, nParas, keysFile, keywords>>

\* line 100: os.listdir has no further entry, _setUp and __init__ return
FinishSetUp ==
    /\ phase = "listing"
    /\ phase' = "ready"
    /\ UNCHANGED <<df_counts, setUpFile, listed, currDoc, currIndex, currPage,
                   currSpeaker, doc, nParas, resultsFile, keysFile, keywords>>

-----------------------------------------------------------------------------
(* search_keys *)

\* a mutant of MissingTranscript: only P_transcript is looked for
MissingParentTranscript(df) == ~HasColumn(df, ColPTranscript)

\* lines 181-184: the two checks that raise
MissingTranscript(df) ==
    ~HasColumn(df, ColPTranscript) \/ ~HasColumn(df, ColCTranscript)

\* lines 189-191: the cells of keywords, row by row and column by column
\* within a row, that are instances of str
Queries(kw) ==
    LET n == Len(kw.index)
        m == Len(kw.columns)
        cells == [k \in 1..(n * m) |->
                    kw.data[kw.index[((k - 1) \div m) + 1]][kw.columns[((k - 1) % m) + 1]]]
        texts == SelectSeq(cells, IsStr)
    IN  [k \in 1..Len(texts) |-> texts[k].s]

\* the non-overlapping occurrences of q in t from position i on, found left
\* to right: what re counts for a pattern without metacharacters
RECURSIVE CountFrom(_, _, _)
CountFrom(q, t, i) ==
    IF i + Len(q) - 1 > Len(t) THEN 0
    ELSE IF OccursAt(q, t, i) THEN 1 + CountFrom(q, t, i + Len(q))
    ELSE CountFrom(q, t, i + 1)

\* df[col].str.lower().str.count(q): NaN for a cell that is no str
CountSeries(df, col, q) ==
    [r \in Range(df.index) |->
        IF IsStr(df.data[r][col]) THEN IntV(CountFrom(q, Lower(df.data[r][col].s), 1))
        ELSE NaN]

\* df.<col>.str exists: the frame has the column and its dtype is not numeric
StrAccessor(df, col) == HasColumn(df, col) /\ col \notin df.numeric

\* lines 189-193 for the queries from the k-th on: the frame, and whether
\* the loop ended without an AttributeError
RECURSIVE Tally(_, _, _)
Tally(df, qs, k) ==
    IF k > Len(qs) THEN [df |-> df, ok |-> TRUE]
    ELSE IF ~StrAccessor(df, ColPTranscript) THEN [df |-> df, ok |-> FALSE]
    ELSE LET df1 == SetColumn(df, <<"P","_">> \o qs[k], CountSeries(df, ColPTranscript, qs[k]))
         IN  IF ~StrAccessor(df1, ColCTranscript) THEN [df |-> df1, ok |-> FALSE]
             ELSE Tally(SetColumn(df1, <<"C","_">> \o qs[k],
                                  CountSeries(df1, ColCTranscript, qs[k])),
                        qs, k + 1)

\* lines 181-198: file is the content of keysFile, NoFile when read_csv
\* cannot read it
search_keys(file) ==
    /\ phase = "ready"
    /\ IF MissingTranscript(df_counts) \/ file = NoFile
       THEN /\ phase' = "error"
            /\ UNCHANGED <<df_counts, resultsFile, keysFile, keywords>>
       ELSE LET kw == ReadCsv(file)
                t == Tally(df_counts, Queries(kw), 1)
            IN  /\ keysFile' = file
                /\ keywords' = kw
                /\ IF t.ok
                   THEN /\ df_counts' = FillNa(t.df)
                        /\ resultsFile' = ToCsv(FillNa(t.df))
                        /\ phase' = "done"
                   ELSE /\ df_counts' = t.df
                        /\ phase' = "error"
                        /\ UNCHANGED resultsFile
    /\ UNCHANGED <<setUpFile, listed, currDoc, currIndex, currPage, currSpeaker,
                   doc, nParas>>

-----------------------------------------------------------------------------
(* The inputs of the model *)

\* entries of originDirectory
FileA == <<"a",".","d","o","c","x">>
FileB == <<"b",".","d","o","c","x">>
FileNotes == <<"n",".","t","x","t">>
DirEntries == {FileA, FileB, FileNotes}

\* paragraph texts: an empty one, a speaker tag in capitals, a speaker tag
\* with a page marker, a page marker alone, two page markers in one
\* paragraph (3 tokens, so a net word count of -1), a page marker "stop"
ParaEmpty == <<>>
ParaParent == <<"P","A","R","E","N","T"," ","h","i">>
ParaChildPage2 == <<"c","h","i","l","d"," ","[","P","a","g","e"," ","2","]"," ","b">>
ParaPage1 == <<"[","P","a","g","e"," ","1","]"," ","h","i">>
ParaTwoMarkers == <<"[","p","a","g","e"," ","2","]","[","P","a","g","e"," ","3","]">>
ParaStop == <<"[","P","a","g","e"," ","s","t","o","p","]"," ","d">>
Paragraphs == {ParaEmpty, ParaParent, ParaChildPage2, ParaPage1, ParaTwoMarkers, ParaStop}

\* the document of the end-to-end scenario: pages 1, 2, stop, 3, the stop
\* page with the parent text "ignored"
ScenPage1 == <<"P","a","r","e","n","t",":"," ","[","P","a","g","e"," ","1","]"," ","o","n","e">>
ScenPage2 == <<"[","P","a","g","e"," ","2","]"," ","t","w","o">>
ScenStop == <<"[","P","a","g","e"," ","s","t","o","p","]"," ","i","g","n","o","r","e","d">>
ScenPage3 == <<"[","P","a","g","e"," ","3","]"," ","t","h","r","e","e">>
ScenarioDocument == <<ScenPage1, ScenPage2, ScenStop, ScenPage3>>
\* the paragraph of the word-count example
ParaExample == <<"[","P","a","g","e"," ","3","]"," ","H","e","l","l","o"," ","[","[","h","e","l","o","]","]"," ","w","o","r","l","d"," ","[","c","h","i","l","d","'","s"," ","n","a","m","e","]">>
ScenarioParagraphs == Range(ScenarioDocument) \cup {ParaExample}
ScenarioEntries == {FileA, FileNotes}

\* the paragraphs of the runs that end in search_keys
KeysParagraphs == {ScenPage1, ParaChildPage2}

\* keyword files
KeysOneRow == [header |-> <<<<"h","a","p","p","y">>, <<>>, <<"3">>, <<"s","a","d">>>>, rows |-> <<>>]
KeysTable == [header |-> <<<<"w","o","r","d">>, <<"n">>>>, rows |-> <<<<<<"p","a","g","e">>, <<"3">>>>, <<<<>>, <<"4">>>>>>]
KeysMixedColumn == [header |-> <<<<"w","o","r","d">>>>, rows |-> <<<<<<"h","i">>>>, <<<<"3">>>>>>]
KeysFiles == {KeysOneRow, KeysTable, KeysMixedColumn, NoFile}

\* files given as setUpFile
CheckpointValid ==
    [header |-> <<ColParticipantID, ColID, ColPageNum, ColPTranscript, ColCTranscript,
                  ColPWordCount, ColCWordCount>>,
     rows |-> <<<<<<"a","-","P","a","g","e","-","1">>, <<"a">>, <<"1">>, <<" ","P","a","r","e","n","t",":"," ","h","i">>, <<" ","c","h","i","l","d"," ","b">>, <<"2">>, <<"2">>>>>>]
CheckpointNoParent ==
    [header |-> <<ColParticipantID, ColID, ColPageNum, ColCTranscript, ColCWordCount>>,
     rows |-> <<<<<<"a","-","P","a","g","e","-","1">>, <<"a">>, <<"1">>, <<" ","c","h","i","l","d"," ","b">>, <<"2">>>>>>]
CheckpointNoChild ==
    [header |-> <<ColParticipantID, ColID, ColPageNum, ColPTranscript, ColPWordCount>>,
     rows |-> <<<<<<"a","-","P","a","g","e","-","1">>, <<"a">>, <<"1">>, <<" ","P","a","r","e","n","t",":"," ","h","i">>, <<"2">>>>>>]
CheckpointForeign == [header |-> <<<<"x">>, <<"y">>>>, rows |-> <<<<<<"1">>, <<"z">>>>>>]
Checkpoints == {CheckpointValid, CheckpointNoParent, CheckpointNoChild,
                CheckpointForeign, NoFile}

-----------------------------------------------------------------------------
(* The specification *)

Init ==
    /\ phase = "init"
    /\ df_counts = EmptyFrame(<<>>)
    /\ setUpFile = Unset
    /\ listed = {}
    /\ currDoc = None
    /\ currIndex = None
    /\ currPage = None
    /\ currSpeaker = None
    /\ doc = <<>>
    /\ nParas = 0
    /\ resultsFile = NoFile
    /\ keysFile = NoFile
    /\ keywords = EmptyFrame(<<>>)

Next ==
    \/ StartSetUp
    \/ \E file \in {CheckpointValid} : LoadSetUpFile(file)
    \/ \E f \in DirEntries : SkipEntry(f)
    \/ \E f \in DirEntries : OpenDocument(f)
    \/ \E text \in Paragraphs : nParas < MaxParas /\ ParseParagraph(text)
    \/ CloseDocument
    \/ FinishSetUp
    \/ \E file \in {KeysTable} : search_keys(file)

Spec == Init /\ [][Next]_vars

\* the same program reading the document of the end-to-end scenario
NextScenario ==
    \/ StartSetUp
    \/ \E file \in {CheckpointValid} : LoadSetUpFile(file)
    \/ \E f \in ScenarioEntries : SkipEntry(f)
    \/ \E f \in ScenarioEntries : OpenDocument(f)
    \/ \E text \in ScenarioParagraphs : nParas < MaxScenarioParas /\ ParseParagraph(text)
    \/ CloseDocument
    \/ FinishSetUp
    \/ \E file \in {KeysTable} : search_keys(file)

SpecScenario == Init /\ [][NextScenario]_vars

\* the same program over every keyword file and every setUpFile of the model
NextKeys ==
    \/ StartSetUp
    \/ \E file \in Checkpoints : LoadSetUpFile(file)
    \/ \E f \in DirEntries : SkipEntry(f)
    \/ \E f \in DirEntries : OpenDocument(f)
    \/ \E text \in KeysParagraphs : nParas < MaxParas /\ ParseParagraph(text)
    \/ CloseDocument
    \/ FinishSetUp
    \/ \E file \in KeysFiles : search_keys(file)

SpecKeys == Init /\ [][NextKeys]_vars

-----------------------------------------------------------------------------
(* Vocabulary of the properties *)

\* q occurs in t
Contains(q, t) == \E i \in 1..Len(t) : OccursAt(q, t, i)

\* s is a prefix of t
IsPrefixOf(s, t) == Len(s) <= Len(t) /\ SubSeq(t, 1, Len(s)) = s

\* the step is one turn of the paragraph loop, on the paragraph LastPara
ParseStep == phase = "parsing" /\ Len(doc') = Len(doc) + 1
LastPara == doc'[Len(doc')]

\* the frame was built by _setUp, not read from a setUpFile
BuiltBySetUp == phase \in {"listing", "parsing", "ready", "done"} /\ setUpFile # SetUpPath

\* a word count of the frame, 0 for a row it lacks and for a NaN cell
CountOf(df, idx, col) ==
    IF HasRow(df, idx) /\ HasColumn(df, col) /\ df.data[idx][col].t = "int"
    THEN df.data[idx][col].n ELSE 0

\* a cell of the frame, NaN for a row it lacks
CellOf(df, idx, col) == IF HasRow(df, idx) THEN df.data[idx][col] ELSE NaN

\* a transcript cell grew by suffix extension, or did not change
Extends(old, new) ==
    IF IsNa(old) THEN TRUE
    ELSE IsStr(new) /\ IsPrefixOf(old.s, new.s)

\* the rows of document d
DocRows(df, d) == {r \in Range(df.index) : df.data[r][ColID] = StrV(d)}

\* the net word count of a paragraph, from the four counts
Net(text) ==
    CountTokens(text) - 2 * CountPageMarkers(text) - CountCorrections(text)
        - CountRedactions(text)

\* '[page L]' or '[Page L]' at position i with L "stop" in any case
StopMarkerAt(s, i) ==
    /\ At(s, i) = "["
    /\ Lower(Window(s, i + 1, 10)) = <<"p","a","g","e"," ","s","t","o","p","]">>

\* the paragraph holds a stop marker and no page marker with another label
OnlyStopMarkers(s) ==
    /\ \E i \in 1..Len(s) : StopMarkerAt(s, i)
    /\ \A i \in 1..Len(s) :
          Lower(Window(s, i, 6)) = <<"[","p","a","g","e"," ">> => StopMarkerAt(s, i)

\* the labels of all page markers of a paragraph
AllLabels(s) == {SubSeq(s, i + 6, PageMatchEnd(s, i) - 1) : i \in PageMatches(s)}

\* the labels of the first page markers of the non-empty paragraphs
FirstLabels(d) == {PageSearch(d[i]) : i \in DOMAIN d} \ {None}

-----------------------------------------------------------------------------
(* C1 *)

\* C1, as claimed: once the scenario document (pages 1, 2, stop, 3, the
\* stop page with the parent text "ignored") is parsed, the table has
\* exactly three rows, no transcript contains "ignored", and the word
\* count of page 2 is that of its own paragraph alone.
C1_StopPageIgnored ==
    (phase = "parsing" /\ doc = ScenarioDocument) =>
        /\ Len(df_counts.index) = 3
        /\ \A r \in Range(df_counts.index) : \A c \in {ColPTranscript, ColCTranscript} :
              IsStr(df_counts.data[r][c]) => ~Contains(<<"i","g","n","o","r","e","d">>, df_counts.data[r][c].s)
        /\ CountOf(df_counts, MakeIndex(currDoc, <<"2">>), ColPWordCount) = Net(ScenPage2)

-----------------------------------------------------------------------------
(* C2 *)

\* C2: in a table built by _setUp no row has a PageNum that is "stop" in
\* any case; and a paragraph whose only page markers are labelled "stop"
\* adds no row, writes no ID or PageNum cell and leaves the current page
\* and the current row as they were, the speaker changing only by its own
\* speaker tag.
C2_NoStopRow ==
    /\ [](BuiltBySetUp =>
            \A r \in Range(df_counts.index) :
                Lower(df_counts.data[r][ColPageNum].s) # <<"s","t","o","p">>)
    /\ [][(ParseStep /\ OnlyStopMarkers(LastPara)) =>
            /\ df_counts'.index = df_counts.index
            /\ \A r \in Range(df_counts.index) : \A c \in {ColID, ColPageNum} :
                  df_counts'.data[r][c] = df_counts.data[r][c]
            /\ currPage' = currPage
            /\ currIndex' = currIndex
            /\ currSpeaker' = (IF Lower(Window(LastPara, 1, 5)) \in SpeakerTags
                               THEN Lower(Window(LastPara, 1, 5)) ELSE currSpeaker)]_vars

\* C2 witness: a stop paragraph was parsed while a row was active, and the
\* table still has that one row
C2_Witness ==
    /\ phase = "parsing"
    /\ doc = <<ParaChildPage2, ParaStop>>
    /\ df_counts.index = <<MakeIndex(currDoc, <<"2">>)>>
    /\ currPage = <<"2">>

-----------------------------------------------------------------------------
(* C3 *)

\* C3, as claimed: the rows of the document being parsed are as many as the
\* distinct labels of all the page markers of its paragraphs.
C3_RowsEqualAllMarkers ==
    (phase = "parsing") =>
        Cardinality(DocRows(df_counts, currDoc))
            = Cardinality(UNION {AllLabels(doc[i]) : i \in DOMAIN doc})

\* C3, amended: the rows of the document being parsed are as many as the
\* distinct labels of the first page markers of its paragraphs, a repeated
\* label giving one row.
C3_RowsEqualFirstMarkers ==
    (phase = "parsing") =>
        /\ Cardinality(DocRows(df_counts, currDoc)) = Cardinality(FirstLabels(doc))
        /\ Cardinality(Range(df_counts.index)) = Len(df_counts.index)

\* C3 witness: a label met twice and another one, two rows
C3_Witness ==
    /\ phase = "parsing"
    /\ doc = <<ParaPage1, ParaChildPage2, ParaPage1>>
    /\ Cardinality(DocRows(df_counts, currDoc)) = 2

-----------------------------------------------------------------------------
(* C4 *)

\* the fields of a keyword file, its first line included, that are text:
\* not empty and not a number
TextCells(file) ==
    {f \in Range(file.header) \cup UNION {Range(file.rows[i]) : i \in DOMAIN file.rows} :
        f # <<>> /\ ~IsNumeric(f)}

\* the fields of a keyword file that are numbers
NumberCells(file) ==
    {f \in Range(file.header) \cup UNION {Range(file.rows[i]) : i \in DOMAIN file.rows} :
        IsNumeric(f)}

\* C4, as claimed: when search_keys has ended, the table has the columns
\* P_<query> and C_<query> for every text field of the keyword file, the
\* fields of the first line included, and none for a number field.
C4_EveryTextCellIsQuery ==
    (phase = "done") =>
        /\ \A q \in TextCells(keysFile) :
              /\ HasColumn(df_counts, <<"P","_">> \o q)
              /\ HasColumn(df_counts, <<"C","_">> \o q)
        /\ \A q \in NumberCells(keysFile) :
              /\ ~HasColumn(df_counts, <<"P","_">> \o q)
              /\ ~HasColumn(df_counts, <<"C","_">> \o q)

-----------------------------------------------------------------------------
(* C5 *)

\* the row of page 3 of the open document
Page3Row == MakeIndex(currDoc, <<"3">>)

\* the word-count column of a speaker
CountColumn(speaker) == IF speaker = <<"p","a","r","e","n">> THEN ColPWordCount ELSE ColCWordCount

\* C5, as claimed: parsing the example paragraph with an active speaker
\* adds 4 to that speaker's word count of the page-3 row.
C5_ExampleAddsFour ==
    [][(ParseStep /\ LastPara = ParaExample /\ currSpeaker' \in SpeakerTags) =>
          CountOf(df_counts', Page3Row, CountColumn(currSpeaker'))
              = CountOf(df_counts, Page3Row, CountColumn(currSpeaker')) + 4]_vars

\* C5, amended: it adds 3 (7 tokens, 1 page marker, 1 correction, 1
\* redaction).
C5_ExampleAddsThree ==
    [][(ParseStep /\ LastPara = ParaExample /\ currSpeaker' \in SpeakerTags) =>
          /\ CountTokens(ParaExample) = 7
          /\ CountOf(df_counts', Page3Row, CountColumn(currSpeaker'))
                = CountOf(df_counts, Page3Row, CountColumn(currSpeaker')) + 3]_vars

\* C5 witness: the example paragraph was parsed twice with the parent
\* active, and the page-3 row counts 6 words for the parent
C5_Witness ==
    /\ phase = "parsing"
    /\ doc = <<ScenPage1, ParaExample, ParaExample>>
    /\ currSpeaker = <<"p","a","r","e","n">>
    /\ CountOf(df_counts, Page3Row, ColPWordCount) = 6

-----------------------------------------------------------------------------
(* C6 *)

\* C6, as claimed: when _setUp has returned, the results file holds the
\* table as it then is.
C6_PersistedAfterSetUp ==
    (phase = "ready" /\ setUpFile # SetUpPath) => resultsFile = ToCsv(df_counts)

-----------------------------------------------------------------------------
(* C7 *)

\* C7: search_keys on a table without the column P_transcript or without
\* the column C_transcript ends in the error, the table, the results file
\* and the keyword file untouched.
C7_SchemaErrorHalts ==
    [][(/\ phase = "ready"
        /\ \/ ColPTranscript \notin Range(df_counts.columns)
           \/ ColCTranscript \notin Range(df_counts.columns)) =>
          /\ phase' = "error"
          /\ df_counts' = df_counts
          /\ resultsFile' = resultsFile
          /\ keysFile' = keysFile
          /\ keywords' = keywords]_vars

\* C7 witness: the run ended in the error on a table read from a setUpFile
\* that has P_transcript and lacks C_transcript
C7_Witness ==
    /\ phase = "error"
    /\ setUpFile = SetUpPath
    /\ ColPTranscript \in Range(df_counts.columns)
    /\ ColCTranscript \notin Range(df_counts.columns)
    /\ keysFile = NoFile
    /\ resultsFile = NoFile

-----------------------------------------------------------------------------
(* C8 *)

\* the transcript column of a speaker
TranscriptColumn(speaker) == IF speaker = <<"p","a","r","e","n">> THEN ColPTranscript ELSE ColCTranscript
OtherSpeaker(speaker) == IF speaker = <<"p","a","r","e","n">> THEN <<"c","h","i","l","d">> ELSE <<"p","a","r","e","n">>

\* C8: a non-empty paragraph parsed while a row is active adds its net word
\* count, negative or not, to the active speaker's word count of the active
\* row; the other speaker's word count and transcript in that row and every
\* other row stay as they were; with no speaker active both word counts of
\* the row are 0 before and after.
C8_NetAddedToActiveSpeaker ==
    [][(ParseStep /\ LastPara # <<>> /\ currIndex' # None) =>
          /\ \A r \in Range(df_counts.index) \ {currIndex'} :
                df_counts'.data[r] = df_counts.data[r]
          /\ Range(df_counts'.index) \subseteq Range(df_counts.index) \cup {currIndex'}
          /\ IF currSpeaker' \in SpeakerTags
             THEN /\ df_counts'.data[currIndex'][CountColumn(currSpeaker')]
                        = IntV(CountOf(df_counts, currIndex', CountColumn(currSpeaker'))
                                 + Net(LastPara))
                  /\ df_counts'.data[currIndex'][CountColumn(OtherSpeaker(currSpeaker'))]
                        = IntV(CountOf(df_counts, currIndex',
                                       CountColumn(OtherSpeaker(currSpeaker'))))
                  /\ df_counts'.data[currIndex'][TranscriptColumn(OtherSpeaker(currSpeaker'))]
                        = CellOf(df_counts, currIndex',
                                 TranscriptColumn(OtherSpeaker(currSpeaker')))
             ELSE /\ df_counts'.data[currIndex'][ColPWordCount] = IntV(0)
                  /\ df_counts'.data[currIndex'][ColCWordCount] = IntV(0)
                  /\ CountOf(df_counts, currIndex', ColPWordCount) = 0
                  /\ CountOf(df_counts, currIndex', ColCWordCount) = 0]_vars

\* C8 witness: a paragraph of net word count -1 was added to the child's
\* count of page 2, lowering it; the parent's count of the row is 0 and the
\* parent's transcript NaN
C8_Witness ==
    /\ phase = "parsing"
    /\ doc = <<ParaChildPage2, ParaTwoMarkers>>
    /\ Net(ParaTwoMarkers) = 0 - 1
    /\ df_counts.data[currIndex][ColCWordCount] = IntV(Net(ParaChildPage2) - 1)
    /\ df_counts.data[currIndex][ColPWordCount] = IntV(0)
    /\ IsNa(df_counts.data[currIndex][ColPTranscript])

-----------------------------------------------------------------------------
(* C9 *)

\* C9: a paragraph whose page marker names a row the table has makes that
\* row the current row and adds no row; and in every turn of the loop every
\* row keeps its ID and PageNum, its transcripts grow by suffix extension
\* only, and its word counts change by the paragraph's net word count or
\* not at all.
C9_RowKeptOnReencounter ==
    [][ParseStep =>
          /\ (/\ LastPara # <<>>
              /\ PageSearch(LastPara) # None
              /\ HasRow(df_counts, MakeIndex(currDoc, PageSearch(LastPara)))) =>
                 /\ currIndex' = MakeIndex(currDoc, PageSearch(LastPara))
                 /\ df_counts'.index = df_counts.index
          /\ \A r \in Range(df_counts.index) :
                /\ HasRow(df_counts', r)
                /\ df_counts'.data[r][ColID] = df_counts.data[r][ColID]
                /\ df_counts'.data[r][ColPageNum] = df_counts.data[r][ColPageNum]
                /\ Extends(df_counts.data[r][ColPTranscript], df_counts'.data[r][ColPTranscript])
                /\ Extends(df_counts.data[r][ColCTranscript], df_counts'.data[r][ColCTranscript])
                /\ \A c \in {ColPWordCount, ColCWordCount} :
                      df_counts'.data[r][c].n - df_counts.data[r][c].n \in {0, Net(LastPara)}]_vars

\* C9 witness: page 2 was met, then page 1, then page 2 again, and the row
\* of page 2 holds both its paragraphs
C9_Witness ==
    /\ phase = "parsing"
    /\ doc = <<ParaChildPage2, ParaPage1, ParaChildPage2>>
    /\ df_counts.index = <<MakeIndex(currDoc, <<"2">>), MakeIndex(currDoc, <<"1">>)>>
    /\ df_counts.data[currIndex][ColCTranscript]
          = StrV(<<" ">> \o ParaChildPage2 \o <<" ">> \o ParaChildPage2)
    /\ df_counts.data[currIndex][ColCWordCount] = IntV(2 * Net(ParaChildPage2))

-----------------------------------------------------------------------------
(* C10 *)

\* C10: a document is opened with no current row, page or speaker; a
\* paragraph read while the document has shown no page marker changes no
\* row; a paragraph read while the document has shown no speaker tag
\* changes no transcript, and leaves the transcripts of a new row NaN.
C10_NoLeakBetweenDocuments ==
    [][/\ (phase' = "parsing" /\ doc' = <<>>) =>
             (currIndex' = None /\ currPage' = None /\ currSpeaker' = None)
       /\ (ParseStep /\ \A i \in DOMAIN doc' : PageSearch(doc'[i]) = None) =>
             df_counts' = df_counts
       /\ (ParseStep /\ \A i \in DOMAIN doc' : SpeakerOf(doc'[i]) \notin SpeakerTags) =>
             \A r \in Range(df_counts'.index) : \A c \in {ColPTranscript, ColCTranscript} :
                df_counts'.data[r][c] = CellOf(df_counts, r, c)]_vars

\* C10 witness: in the second document a paragraph came before the first
\* page marker and the page marker before any speaker tag; the row of the
\* first document holds its transcript and the new row none
C10_Witness ==
    /\ phase = "parsing"
    /\ listed = {FileA, FileB}
    /\ doc = <<ParaStop, ParaPage1>>
    /\ Len(df_counts.index) = 2
    /\ IsStr(df_counts.data[df_counts.index[1]][ColCTranscript])
    /\ IsNa(df_counts.data[currIndex][ColPTranscript])
    /\ IsNa(df_counts.data[currIndex][ColCTranscript])
    /\ df_counts.data[currIndex][ColID] = StrV(currDoc)
    /\ df_counts.data[df_counts.index[1]][ColID] # StrV(currDoc)

=============================================================================
